---- MODULE Spec2Model ----
(***************************************************************************)
(* Model of plumise-mcp: the heartbeat loop (src/src/services/heartbeat.ts,*)
(* class HeartbeatService), the challenge solver and the tools start_node, *)
(* stop_node, node_status and solve_challenge (src/src/tools/node.ts), and *)
(* the resource plumise://node (src/src/resources/node.ts), together with  *)
(* the JavaScript runtime pieces they rely on: promises that settle at a   *)
(* later step (await), and setInterval / clearInterval.                    *)
(*                                                                         *)
(* A value of type T | null is modelled as a sequence: <<>> is null and    *)
(* <<x>> is the value x.                                                   *)
(***************************************************************************)
EXTENDS Integers, Sequences, FiniteSets, TLC

\* ---------------------------------------------------------------- bounds
MaxTime == 4
MaxAttempts == 3
MaxStartCalls == 2
MaxStopCalls == 2

\* config.heartbeatIntervalMs, the interval the server constructs its
\* HeartbeatService with, in model time units (one unit = one step of the
\* clock)
heartbeatIntervalMs == 2

\* ------------------------------------------------------------ null values
None == <<>>
Some(x) == <<x>>

\* --------------------------------------------------------------- messages
\* error.message of what signMessage can throw
SignErrors == {"signer error"}
\* error.message of what RpcClient.call can throw
RpcErrors == {"RPC error"}
\* HeartbeatResult.acknowledged of a call that returned
RpcResults == {TRUE, FALSE}

VARIABLES
    \* fields of HeartbeatService
    intervalMs,
    isRunning, timer, lastHeartbeat, heartbeatCount, lastError,
    \* runtime: the clock, the live intervals, the sendHeartbeat() calls in
    \* flight, the start() calls suspended at their await
    now, intervals, attempts, starts,
    \* exceptions that left a sendHeartbeat() call
    escaped,
    \* history: counters of calls and events, the last operation, the id
    \* of the attempt that completed last
    nextAttempt, nextTimer, startCalls, stopCalls, firings, succeeded, failed,
    lastOp, stopped, lastDone,
    \* one application of hasLeadingZeroBits: its arguments and its result
    chkHash, chkBits, chkVerdict,
    \* the world of solve_challenge: the challenge the network holds, the
    \* hash of data + nonce for each nonce, and the clock in seconds
    network, oracle, clock,
    \* one invocation of solve_challenge: its position, its locals
    \* (challenge, nonce, solution, signature) and its outcome
    tpc, challenge, nonce, solution, signature, outcome,
    \* what the invocation did: the last input suffix hashed, the number of
    \* hashes computed, the calls of the solver, the signer and the submit
    \* RPC, and the arguments of the last sign and submit call
    hashed, evals, solverCalls, signCalls, submitCalls, signedMsg, submitted,
    \* what the tool returned besides the status: the isError flag and the
    \* reward and message of the report; and the result the network gave to
    \* the submit call
    isError, reported, netResult,
    \* one status request (node_status tool or plumise://node resource):
    \* its position, which of the two it is, and the report it returned
    statusReq,
    \* one invocation of start_node: its position, the attempt its start()
    \* awaits, whether it has called start(), and its outcome
    node,
    \* the outcome of one invocation of stop_node
    stopNode

fields == <<isRunning, timer, lastHeartbeat, heartbeatCount, lastError>>
runtime == <<now, intervals, attempts, starts, escaped>>
history == <<nextAttempt, nextTimer, startCalls, stopCalls, firings, succeeded,
             failed, lastOp, stopped, lastDone>>
check == <<chkHash, chkBits, chkVerdict>>
world == <<network, oracle, clock>>
tool == <<tpc, challenge, nonce, solution, signature, outcome,
          hashed, evals, solverCalls, signCalls, submitCalls, signedMsg,
          submitted, isError, reported, netResult>>
\* what no operation of the heartbeat service changes
server == <<statusReq, node, stopNode>>
frame == <<intervalMs, check, world, tool, server>>
heartbeat == <<fields, runtime, history, intervalMs>>
vars == <<fields, runtime, history, frame>>

\* ------------------------------------------------------------------ Init
\* State after `new HeartbeatService(rpcClient, account, ms)`: the
\* constructor stores its arguments and checks nothing.
Constructed(ms) ==
    /\ intervalMs = ms
    /\ isRunning = FALSE
    /\ timer = None
    /\ lastHeartbeat = None
    /\ heartbeatCount = 0
    /\ lastError = None
    /\ now = 0
    /\ intervals = {}
    /\ attempts = {}
    /\ starts = {}
    /\ escaped = 0
    /\ nextAttempt = 0
    /\ nextTimer = 0
    /\ startCalls = 0
    /\ stopCalls = 0
    /\ firings = 0
    /\ succeeded = 0
    /\ failed = 0
    /\ lastOp = "new"
    /\ stopped = FALSE
    /\ lastDone = None

\* no application of hasLeadingZeroBits is under way
NoCheck == chkHash = None /\ chkBits = 0 /\ chkVerdict = None

\* solve_challenge has not been invoked
ToolIdle ==
    /\ tpc = "idle"
    /\ challenge = None /\ nonce = 0 /\ solution = None /\ signature = None
    /\ outcome = None
    /\ hashed = None /\ evals = 0
    /\ solverCalls = 0 /\ signCalls = 0 /\ submitCalls = 0
    /\ signedMsg = None /\ submitted = None
    /\ isError = FALSE /\ reported = None /\ netResult = None

\* no status request, start_node or stop_node has been made
ServerIdle ==
    /\ statusReq = [pc |-> "idle", reader |-> "none", report |-> None]
    /\ node = [pc |-> "idle", awaits |-> None, called |-> FALSE,
               outcome |-> None]
    /\ stopNode = None

\* solve_challenge and the other tools are not part of the run
NoTool ==
    network = None /\ oracle = None /\ clock = 0 /\ ToolIdle /\ ServerIdle

Init == Constructed(heartbeatIntervalMs) /\ NoCheck /\ NoTool

\* ------------------------------------------------------------- the clock
\* Time passes. A start() whose awaited promise has settled continues in
\* the same turn of the event loop (a microtask), before the clock moves.
Tick ==
    /\ \A c \in starts : c.pc = "await"
    /\ now' = now + 1
    /\ lastOp' = "tick"
    /\ UNCHANGED <<fields, intervals, attempts, starts, escaped>>
    /\ UNCHANGED <<nextAttempt, nextTimer, startCalls, stopCalls, firings,
                   succeeded, failed, stopped, lastDone>>

\* --------------------------------------------------- sendHeartbeat()
\* heartbeat.ts 79-82: the synchronous head of sendHeartbeat(): read the
\* clock, build the message, call signMessage and suspend on its promise.
\* It is called by start() (line 56) and by the interval's callback (line 60).
\* ts is `timestamp` (line 80), the time the attempt started.
SendHeartbeat ==
    /\ attempts' = attempts \cup {[id |-> nextAttempt, pc |-> "sign", ts |-> now]}
    /\ nextAttempt' = nextAttempt + 1

\* The promise sendHeartbeat() returned settles: the call leaves the set of
\* calls in flight and the start() awaiting it (line 56), if any, becomes
\* ready to continue. threw tells whether the promise was rejected.
Settle(a, threw) ==
    /\ attempts' = attempts \ {a}
    /\ lastDone' = Some(a.id)
    /\ starts' = {IF c.att = a.id
                     THEN [c EXCEPT !.pc = IF threw THEN "rejected" ELSE "resume"]
                     ELSE c : c \in starts}
    /\ UNCHANGED nextAttempt

\* heartbeat.ts 86-88, and the normal return of sendHeartbeat()
OnSuccess_keepsError(a) ==
    /\ lastHeartbeat' = Some(now)
    /\ heartbeatCount' = heartbeatCount + 1
    /\ UNCHANGED <<lastError, isRunning, timer, intervals, escaped>>
    /\ Settle(a, FALSE)

OnSuccess_startDate(a) ==
    /\ lastHeartbeat' = Some(a.ts)
    /\ heartbeatCount' = heartbeatCount + 1
    /\ lastError' = None
    /\ UNCHANGED <<isRunning, timer, intervals, escaped>>
    /\ Settle(a, FALSE)

OnSuccess_lostUpdate(a) ==
    /\ lastHeartbeat' = Some(now)
    /\ heartbeatCount' = IF attempts = {a} THEN heartbeatCount + 1
                                           ELSE heartbeatCount
    /\ lastError' = None
    /\ UNCHANGED <<isRunning, timer, intervals, escaped>>
    /\ Settle(a, FALSE)

OnSuccess(a) ==
    /\ lastHeartbeat' = Some(now)
    /\ heartbeatCount' = heartbeatCount + 1
    /\ lastError' = None
    /\ UNCHANGED <<isRunning, timer, intervals, escaped>>
    /\ Settle(a, FALSE)

\* heartbeat.ts 89-94: the catch block; nothing is rethrown
OnFailure_stops(a, msg) ==
    /\ lastError' = Some(msg)
    /\ isRunning' = FALSE
    /\ timer' = None
    /\ intervals' = {i \in intervals : timer = None \/ i.id # timer[1]}
    /\ UNCHANGED <<lastHeartbeat, heartbeatCount, escaped>>
    /\ Settle(a, FALSE)

OnFailure_rethrows(a, msg) ==
    /\ lastError' = Some(msg)
    /\ escaped' = escaped + 1
    /\ UNCHANGED <<lastHeartbeat, heartbeatCount, isRunning, timer, intervals>>
    /\ Settle(a, TRUE)

OnFailure_retries(a, msg) ==
    /\ lastError' = Some(msg)
    /\ UNCHANGED <<lastHeartbeat, heartbeatCount>>
    /\ UNCHANGED <<isRunning, timer, intervals, escaped>>
    /\ attempts' = (attempts \ {a})
                       \cup {[id |-> nextAttempt, pc |-> "sign", ts |-> now]}
    /\ nextAttempt' = nextAttempt + 1
    /\ lastDone' = Some(a.id)
    /\ starts' = {IF c.att = a.id THEN [c EXCEPT !.pc = "resume"] ELSE c :
                      c \in starts}

OnFailure(a, msg) ==
    /\ lastError' = Some(msg)
    /\ UNCHANGED <<lastHeartbeat, heartbeatCount>>
    /\ UNCHANGED <<isRunning, timer, intervals, escaped>>
    /\ Settle(a, FALSE)

\* heartbeat.ts 82: signMessage resolved; line 84 calls agentHeartbeat and
\* suspends on it
SignOk(a) ==
    /\ a.pc = "sign"
    /\ attempts' = (attempts \ {a}) \cup {[a EXCEPT !.pc = "rpc"]}
    /\ lastOp' = "signed"
    /\ UNCHANGED <<fields, now, intervals, starts, escaped>>
    /\ UNCHANGED <<nextAttempt, nextTimer, startCalls, stopCalls, firings,
                   succeeded, failed, stopped, lastDone>>

\* heartbeat.ts 82: signMessage rejected
SignFail(a, msg) ==
    /\ a.pc = "sign"
    /\ OnFailure(a, msg)
    /\ failed' = failed + 1
    /\ lastOp' = "failed"
    /\ UNCHANGED now
    /\ UNCHANGED <<nextTimer, startCalls, stopCalls, firings, succeeded,
                   stopped>>

\* heartbeat.ts 84: agentHeartbeat resolved with a HeartbeatResult whose
\* acknowledged field is ack; the result is not looked at
RpcOk(a, ack) ==
    /\ a.pc = "rpc"
    /\ OnSuccess(a)
    /\ succeeded' = succeeded + 1
    /\ lastOp' = "succeeded"
    /\ UNCHANGED now
    /\ UNCHANGED <<nextTimer, startCalls, stopCalls, firings, failed, stopped>>

\* heartbeat.ts 84: agentHeartbeat rejected (rpc-client 97-109)
RpcFail(a, msg) ==
    /\ a.pc = "rpc"
    /\ OnFailure(a, msg)
    /\ failed' = failed + 1
    /\ lastOp' = "failed"
    /\ UNCHANGED now
    /\ UNCHANGED <<nextTimer, startCalls, stopCalls, firings, succeeded,
                   stopped>>

\* ------------------------------------------------------------- start()
\* heartbeat.ts 48: the guard of start()
AlreadyRunning_missing == FALSE

AlreadyRunning == isRunning

\* heartbeat.ts 47-56: a call of start(), up to its await
Start ==
    /\ startCalls' = startCalls + 1
    /\ stopped' = FALSE
    /\ lastOp' = "start"
    /\ IF AlreadyRunning
          THEN /\ UNCHANGED <<fields, runtime>>
               /\ UNCHANGED nextAttempt
          ELSE /\ isRunning' = TRUE
               /\ lastError' = None
               /\ SendHeartbeat
               /\ starts' = starts \cup
                      {[att |-> nextAttempt, pc |-> "await"]}
               /\ UNCHANGED <<timer, lastHeartbeat, heartbeatCount>>
               /\ UNCHANGED <<now, intervals, escaped>>
    /\ UNCHANGED <<nextTimer, stopCalls, firings, succeeded, failed, lastDone>>

\* The delay setInterval(callback, intervalMs) uses: Node sets a delay
\* below 1 to 1.
TimerDelay == IF intervalMs < 1 THEN 1 ELSE intervalMs

\* heartbeat.ts 59-61: setInterval; the new interval first fires
\* intervalMs after this call
SetInterval_firesAtOnce ==
    /\ intervals' = intervals \cup
           {[id |-> nextTimer, armedAt |-> now, nextFire |-> now]}
    /\ timer' = Some(nextTimer)
    /\ nextTimer' = nextTimer + 1

SetInterval ==
    /\ intervals' = intervals \cup
           {[id |-> nextTimer, armedAt |-> now, nextFire |-> now + TimerDelay]}
    /\ timer' = Some(nextTimer)
    /\ nextTimer' = nextTimer + 1

\* heartbeat.ts 56-62: start() continues after its await and returns
StartResume(c) ==
    /\ c.pc = "resume"
    /\ SetInterval
    /\ starts' = starts \ {c}
    /\ lastOp' = "armed"
    /\ UNCHANGED <<isRunning, lastHeartbeat, heartbeatCount, lastError>>
    /\ UNCHANGED <<now, attempts, escaped>>
    /\ UNCHANGED <<nextAttempt, startCalls, stopCalls, firings, succeeded,
                   failed, stopped, lastDone>>

\* -------------------------------------------------------------- stop()
\* heartbeat.ts 67-73
StopBody_resetsCount ==
    /\ IF timer # None
          THEN /\ intervals' = {i \in intervals : i.id # timer[1]}
               /\ timer' = None
          ELSE UNCHANGED <<intervals, timer>>
    /\ isRunning' = FALSE
    /\ heartbeatCount' = 0
    /\ UNCHANGED <<lastHeartbeat, lastError>>
    /\ UNCHANGED <<now, attempts, starts, escaped>>

StopBody_keepsTimer ==
    /\ isRunning' = FALSE
    /\ UNCHANGED <<intervals, timer, lastHeartbeat, heartbeatCount, lastError>>
    /\ UNCHANGED <<now, attempts, starts, escaped>>

StopBody_cancels ==
    /\ IF timer # None
          THEN /\ intervals' = {i \in intervals : i.id # timer[1]}
               /\ timer' = None
          ELSE UNCHANGED <<intervals, timer>>
    /\ isRunning' = FALSE
    /\ attempts' = {}
    /\ UNCHANGED <<lastHeartbeat, heartbeatCount, lastError>>
    /\ UNCHANGED <<now, starts, escaped>>

StopBody_clearsError ==
    /\ IF timer # None
          THEN /\ intervals' = {i \in intervals : i.id # timer[1]}
               /\ timer' = None
          ELSE UNCHANGED <<intervals, timer>>
    /\ isRunning' = FALSE
    /\ lastError' = None
    /\ UNCHANGED <<lastHeartbeat, heartbeatCount>>
    /\ UNCHANGED <<now, attempts, starts, escaped>>

StopBody ==
    /\ IF timer # None
          THEN /\ intervals' = {i \in intervals : i.id # timer[1]}
               /\ timer' = None
          ELSE UNCHANGED <<intervals, timer>>
    /\ isRunning' = FALSE
    /\ UNCHANGED <<lastHeartbeat, heartbeatCount, lastError>>
    /\ UNCHANGED <<now, attempts, starts, escaped>>

Stop ==
    /\ StopBody
    /\ stopCalls' = stopCalls + 1
    /\ stopped' = TRUE
    /\ lastOp' = "stop"
    /\ UNCHANGED <<nextAttempt, nextTimer, startCalls, firings, succeeded,
                   failed, lastDone>>

\* ------------------------------------------------- the interval fires
\* heartbeat.ts 59-61: what decides whether a firing calls sendHeartbeat():
\* nothing does, every firing calls it
TickAllowed_whenIdle == attempts = {}

TickAllowed == TRUE

\* The runtime runs the callback of a live interval that is due, and
\* schedules its next firing intervalMs later.
TimerFire(i) ==
    /\ now >= i.nextFire
    /\ firings' = firings + 1
    /\ intervals' = (intervals \ {i}) \cup {[i EXCEPT !.nextFire = now + TimerDelay]}
    /\ IF TickAllowed
          THEN SendHeartbeat
          ELSE UNCHANGED <<attempts, nextAttempt>>
    /\ lastOp' = "fired"
    /\ UNCHANGED <<fields, now, starts, escaped>>
    /\ UNCHANGED <<nextTimer, startCalls, stopCalls, succeeded, failed,
                   stopped, lastDone>>

\* ------------------------------------------------------------------ Next
\* The bounds of the exploration: the clock stops at MaxTime, at most
\* MaxStartCalls calls of start() and MaxStopCalls calls of stop() are made,
\* and at most MaxAttempts attempts are started.
Next ==
    \/ now < MaxTime /\ Tick /\ UNCHANGED frame
    \/ /\ startCalls < MaxStartCalls
       /\ isRunning \/ nextAttempt < MaxAttempts
       /\ Start /\ UNCHANGED frame
    \/ stopCalls < MaxStopCalls /\ Stop /\ UNCHANGED frame
    \/ \E c \in starts : StartResume(c) /\ UNCHANGED frame
    \/ \E i \in intervals :
           nextAttempt < MaxAttempts /\ TimerFire(i) /\ UNCHANGED frame
    \/ \E a \in attempts : SignOk(a) /\ UNCHANGED frame
    \/ \E a \in attempts, m \in SignErrors : SignFail(a, m) /\ UNCHANGED frame
    \/ \E a \in attempts, ack \in RpcResults : RpcOk(a, ack) /\ UNCHANGED frame
    \/ \E a \in attempts, m \in RpcErrors : RpcFail(a, m) /\ UNCHANGED frame

Spec == Init /\ [][Next]_vars

\* ------------------------------------------------------- hex strings
\* A string is modelled as the sequence of its characters.
HexDigits == <<"0", "1", "2", "3", "4", "5", "6", "7",
               "8", "9", "a", "b", "c", "d", "e", "f">>

\* parseInt(c, 16) of one lower-case hex digit
ParseHexDigit(c) == (CHOOSE k \in 1..16 : HexDigits[k] = c) - 1

\* n.toString(16), n >= 0
RECURSIVE ToString16(_)
ToString16(n) ==
    IF n < 16
       THEN <<HexDigits[n + 1]>>
       ELSE Append(ToString16(n \div 16), HexDigits[(n % 16) + 1])

\* s.padStart(len, c)
RECURSIVE PadStart(_, _, _)
PadStart(s, len, c) ==
    IF Len(s) >= len THEN s ELSE PadStart(<<c>> \o s, len, c)

\* x & y on non-negative integers
RECURSIVE BitAnd(_, _)
BitAnd(x, y) ==
    IF x = 0 \/ y = 0
       THEN 0
       ELSE (x % 2) * (y % 2) + 2 * BitAnd(x \div 2, y \div 2)

\* x << k
ShiftLeft(x, k) == x * (2 ^ k)

\* hash.startsWith("0x")
StartsWith0x(hash) == Len(hash) >= 2 /\ hash[1] = "0" /\ hash[2] = "x"

\* node.ts 286-305 (and agent.ts 392-408): hasLeadingZeroBits(hash, bits).
\* hex[i] of an index past the end is undefined, which is !== "0".
HasLeadingZeroBits_maskNotShifted(hash, bits) ==
    LET hex == IF StartsWith0x(hash) THEN SubSeq(hash, 3, Len(hash)) ELSE hash
        fullNibbles == bits \div 4
        remainingBits == bits % 4
    IN  IF \E i \in 0..(fullNibbles - 1) : i >= Len(hex) \/ hex[i + 1] # "0"
           THEN FALSE
           ELSE IF /\ remainingBits > 0
                   /\ fullNibbles < Len(hex)
                   /\ BitAnd(ParseHexDigit(hex[fullNibbles + 1]),
                             ShiftLeft(15, remainingBits)) # 0
                   THEN FALSE
                   ELSE TRUE

HasLeadingZeroBits(hash, bits) ==
    LET hex == IF StartsWith0x(hash) THEN SubSeq(hash, 3, Len(hash)) ELSE hash
        fullNibbles == bits \div 4
        remainingBits == bits % 4
    IN  IF \E i \in 0..(fullNibbles - 1) : i >= Len(hex) \/ hex[i + 1] # "0"
           THEN FALSE
           ELSE IF /\ remainingBits > 0
                   /\ fullNibbles < Len(hex)
                   /\ BitAnd(ParseHexDigit(hex[fullNibbles + 1]),
                             ShiftLeft(15, 4 - remainingBits)) # 0
                   THEN FALSE
                   ELSE TRUE

\* ------------------------------------------- hash values of the model
\* The number of hex digits of a hash (keccak256 gives 64; the model keeps
\* hashes short).
HashLen == 2

\* The digits a hash has after its leading zero digits: what the check can
\* tell apart is how many leading zero bits the first of them has.
FirstDigits == {"1", "2", "5", "8", "f"}

\* The hex digits of the hashes of the model: k zero digits, then a
\* non-zero digit, then "f" up to HashLen; and the all-zero hash.
HashDigits ==
    {[i \in 1..HashLen |-> IF i <= k THEN "0" ELSE IF i = k + 1 THEN v ELSE "f"] :
         k \in 0..(HashLen - 1), v \in FirstDigits}
    \cup {[i \in 1..HashLen |-> "0"]}

\* keccak256 returns its digest with the 0x prefix
Prefixed(h) == <<"0", "x">> \o h

\* The difficulties of the model: up to one full digit more than a hash has.
Difficulties == 0..(4 * HashLen + 4)

\* -------------------------------- one application of hasLeadingZeroBits
InitCheck ==
    /\ Constructed(heartbeatIntervalMs) /\ NoTool
    /\ \E h \in HashDigits : chkHash \in {Some(h), Some(Prefixed(h))}
    /\ chkBits \in Difficulties
    /\ chkVerdict = None

ApplyCheck ==
    /\ chkVerdict = None
    /\ chkVerdict' = Some(HasLeadingZeroBits(chkHash[1], chkBits))
    /\ UNCHANGED <<chkHash, chkBits, heartbeat, world, tool, server>>

SpecCheck == InitCheck /\ [][ApplyCheck]_vars

\* ------------------------------------------------------ the solver
\* node.ts 264 (and agent.ts 378)
MAX_ITERATIONS == 1000000

\* nonce.toString(16).padStart(8, "0")
Hex8(n) == PadStart(ToString16(n), 8, "0")

\* The number of nonces, from 0 on, whose hashes the model chooses one by
\* one.
HeadLen == 2

AllZero == [i \in 1..HashLen |-> "0"]
NoZero == [i \in 1..HashLen |-> "f"]

\* ethers.keccak256(ethers.toUtf8Bytes(data + hex8(n))) for the data of the
\* challenge on the network, as a function of the nonce n: oracle.head
\* lists the digests of the first nonces, the nonce oracle.late has the
\* all-zero digest, and every other nonce has the digest oracle.tail.
Keccak256(n) ==
    Prefixed(IF n < Len(oracle.head) THEN oracle.head[n + 1]
             ELSE IF n = oracle.late THEN AllZero
             ELSE oracle.tail)

\* Hash functions under which nonce HeadLen and every later one has the
\* all-zero digest.
ShallowOracles ==
    [head : [1..HeadLen -> HashDigits], tail : {AllZero},
     late : {MAX_ITERATIONS}]

\* Hash functions under which the first nonces have no zero bit in front
\* and all later ones share one digest, but for the last candidate
\* (MAX_ITERATIONS - 1), or the first nonce that is no candidate any more,
\* which has the all-zero digest.
DeepOracles ==
    [head : {[i \in 1..HeadLen |-> NoZero]}, tail : HashDigits,
     late : {MAX_ITERATIONS - 1, MAX_ITERATIONS}]

\* rpc-client Challenge: what agent_getChallenge returns
Challenge(id, difficulty, expiresAt) ==
    [id |-> id, difficulty |-> difficulty, data |-> "data",
     expiresAt |-> expiresAt]

\* The latest clock reading of the model, in seconds.
MaxClock == 2

\* The runs of solve_challenge the model explores: every hash function
\* above at every difficulty, with a challenge that does not expire; every
\* pair of clock and expiresAt around it (expiresAt is Unix seconds, 0 for
\* no expiry, so it is not negative); no challenge; a challenge without id.
SolveInputs ==
    {[oracle |-> o, network |-> Some(Challenge("c1", d, 0)), clock |-> MaxClock] :
         o \in ShallowOracles \cup DeepOracles, d \in Difficulties}
    \cup
    {[oracle |-> [head |-> [i \in 1..HeadLen |-> NoZero], tail |-> AllZero,
                  late |-> MAX_ITERATIONS],
      network |-> Some(Challenge("c1", d, x)), clock |-> t] :
         d \in {0, 1}, x \in 0..(MaxClock + 1), t \in 0..MaxClock}
    \cup
    {[oracle |-> [head |-> [i \in 1..HeadLen |-> NoZero], tail |-> AllZero,
                  late |-> MAX_ITERATIONS],
      network |-> n, clock |-> MaxClock] :
         n \in {None, Some(Challenge("", 0, 0))}}

InitSolve ==
    /\ Constructed(heartbeatIntervalMs) /\ NoCheck
    /\ \E i \in SolveInputs :
           oracle = i.oracle /\ network = i.network /\ clock = i.clock
    /\ ToolIdle /\ ServerIdle

\* wallet.address
Address == "0xA"

\* The tool returns a report with this status and without isError.
Return(status) ==
    /\ outcome' = Some(status)
    /\ isError' = FALSE
    /\ tpc' = "done"

\* node.ts 162-164: the tool is invoked and awaits agentGetChallenge
InvokeSolveChallenge ==
    /\ tpc = "idle"
    /\ tpc' = "fetch"
    /\ UNCHANGED <<challenge, nonce, solution, signature, outcome, hashed,
                   evals, solverCalls, signCalls, submitCalls, signedMsg,
                   submitted, isError, reported, netResult>>
    /\ UNCHANGED <<heartbeat, check, world, server>>

\* node.ts 166: !challenge || !challenge.id
NoChallenge_onlyNull(c) == c = None
NoChallenge(c) == c = None \/ c[1].id = ""

\* node.ts 179: challenge.expiresAt > 0 && now >= challenge.expiresAt
Expired_onlyPast(c, now_) == c.expiresAt > 0 /\ now_ > c.expiresAt
Expired(c, now_) == c.expiresAt > 0 /\ now_ >= c.expiresAt

\* node.ts 164-200: agentGetChallenge resolved; no challenge, expired, or
\* the solver is entered
FetchOk ==
    /\ tpc = "fetch"
    /\ challenge' = network
    /\ IF NoChallenge(network)
          THEN Return("no challenge")
               /\ UNCHANGED <<nonce, solverCalls>>
          ELSE IF Expired(network[1], clock)
                  THEN Return("expired")
                       /\ UNCHANGED <<nonce, solverCalls>>
                  ELSE /\ tpc' = "solve"
                       /\ nonce' = 0
                       /\ solverCalls' = solverCalls + 1
                       /\ UNCHANGED <<outcome, isError>>
    /\ UNCHANGED <<solution, signature, hashed, evals, signCalls,
                   submitCalls, signedMsg, submitted, reported, netResult>>
    /\ UNCHANGED <<heartbeat, check, world, server>>

\* node.ts 251-257: a rejected await is caught and reported
Caught ==
    /\ outcome' = Some("error")
    /\ isError' = TRUE
    /\ tpc' = "done"
    /\ UNCHANGED <<challenge, nonce, solution, signature, hashed, evals,
                   solverCalls, signCalls, submitCalls, signedMsg, submitted,
                   reported, netResult>>
    /\ UNCHANGED <<heartbeat, check, world, server>>

FetchFail ==
    /\ tpc = "fetch"
    /\ Caught

\* node.ts 272: the first nonce that is no candidate
LoopEnd_oneEarly == MAX_ITERATIONS - 1
LoopEnd == MAX_ITERATIONS

\* node.ts 277: the string solveChallenge returns for a nonce
Returned_unpadded(n) == ToString16(n)
Returned_next(n) == Hex8(n + 1)
Returned(n) == Hex8(n)

\* node.ts 272: nonce++
NextNonce_skips(n) == n + 2
NextNonce(n) == n + 1

\* node.ts 276: the test of one candidate
Passes_notFirst(n, bits) == n > 0 /\ HasLeadingZeroBits(Keccak256(n), bits)
Passes(n, bits) == HasLeadingZeroBits(Keccak256(n), bits)

\* node.ts 223: `solution:${wallet.address}:${challenge.id}:${solution}`,
\* the string as the sequence of its pieces
SubmitMessage_noId(id, sol) == <<"solution", ":", Address, ":">> \o sol
SubmitMessage(id, sol) == <<"solution", ":", Address, ":", id, ":">> \o sol

\* The first nonce after n whose digest is not known to equal that of n:
\* the nonces n .. StretchEnd(n) - 1 are candidates with one and the same
\* digest.
StretchEnd(n) ==
    IF n < Len(oracle.head) \/ n = oracle.late
       THEN n + 1
       ELSE IF n < oracle.late /\ oracle.late < LoopEnd
               THEN oracle.late
               ELSE LoopEnd

\* node.ts 272-280 and 202-224: the loop of solveChallenge at the
\* candidate nonce.  A passing candidate is returned and the tool goes on
\* to sign the submit message.  A failing candidate is followed by the
\* next one; the turns of the loop for the candidates that share its
\* digest, and so fail with it, are taken in the same step.  When the
\* candidates are used up the solver returns null and the tool reports
\* "failed".
SolveStep ==
    /\ tpc = "solve"
    /\ IF nonce < LoopEnd
          THEN /\ IF Passes(nonce, challenge[1].difficulty)
                     THEN /\ hashed' = Some(Hex8(nonce))
                          /\ evals' = evals + 1
                          /\ solution' = Some(Returned(nonce))
                          /\ signedMsg' = Some(SubmitMessage(challenge[1].id,
                                                              Returned(nonce)))
                          /\ signCalls' = signCalls + 1
                          /\ tpc' = "sign"
                          /\ UNCHANGED nonce
                     ELSE /\ hashed' = Some(Hex8(StretchEnd(nonce) - 1))
                          /\ evals' = evals + (StretchEnd(nonce) - nonce)
                          /\ nonce' = NextNonce(StretchEnd(nonce) - 1)
                          /\ UNCHANGED <<tpc, solution, signedMsg, signCalls>>
               /\ UNCHANGED <<outcome, isError>>
          ELSE /\ Return("failed")
               /\ UNCHANGED <<nonce, solution, hashed, evals, signedMsg,
                              signCalls>>
    /\ UNCHANGED <<challenge, signature, solverCalls, submitCalls, submitted,
                   reported, netResult>>
    /\ UNCHANGED <<heartbeat, check, world, server>>

\* wallet.signMessage(m): the signature is a function of the message
SignatureOf(m) == <<"sig", m>>

\* node.ts 224-231: signMessage resolved; agentSubmitSolution is called
SolutionSigned ==
    /\ tpc = "sign"
    /\ signature' = Some(SignatureOf(signedMsg[1]))
    /\ submitted' = Some(<<Address, challenge[1].id, solution[1],
                           SignatureOf(signedMsg[1])>>)
    /\ submitCalls' = submitCalls + 1
    /\ tpc' = "submit"
    /\ UNCHANGED <<challenge, nonce, solution, outcome, hashed, evals,
                   solverCalls, signCalls, signedMsg, isError, reported,
                   netResult>>
    /\ UNCHANGED <<heartbeat, check, world, server>>

SignRejected ==
    /\ tpc = "sign"
    /\ Caught

\* rpc-client SolutionResult: what agent_submitSolution may answer
SolutionResults ==
    [accepted : BOOLEAN, reward : {"0", "5"}, message : {"ok", "late"}]

\* node.ts 239: result.accepted ? "accepted" : "rejected"
StatusOf(result) == IF result.accepted THEN "accepted" ELSE "rejected"

\* node.ts 242-243: reward: result.reward, message: result.message
Reported(result) == [reward |-> result.reward, message |-> result.message]

\* node.ts 226-249: agentSubmitSolution resolved with result
SubmitOk(result) ==
    /\ tpc = "submit"
    /\ netResult' = Some(result)
    /\ Return(StatusOf(result))
    /\ reported' = Some(Reported(result))
    /\ UNCHANGED <<challenge, nonce, solution, signature, hashed, evals,
                   solverCalls, signCalls, submitCalls, signedMsg, submitted>>
    /\ UNCHANGED <<heartbeat, check, world, server>>

SubmitFail ==
    /\ tpc = "submit"
    /\ Caught

NextSolve ==
    \/ InvokeSolveChallenge
    \/ FetchOk
    \/ FetchFail
    \/ SolveStep
    \/ SolutionSigned
    \/ SignRejected
    \/ \E result \in SolutionResults : SubmitOk(result)
    \/ SubmitFail

SpecSolve == InitSolve /\ [][NextSolve]_vars

\* ------------------------------------------------ status reports
\* Date.toISOString(): the date as a string
ToISOString(t) == <<"iso", t>>

\* tools/node.ts 130-135, resources/node.ts 52-58: the heartbeat section
\* built from the accessors of the service
HeartbeatSection ==
    [running |-> isRunning,
     lastHeartbeat |-> IF lastHeartbeat = None
                          THEN None
                          ELSE Some(ToISOString(lastHeartbeat[1])),
     totalHeartbeats |-> heartbeatCount,
     lastError |-> lastError]

\* resources/node.ts 80-85: the heartbeat section of the report the
\* resource gives when the status query failed
FailedSection(msg) ==
    [running |-> FALSE, lastHeartbeat |-> None, totalHeartbeats |-> 0,
     lastError |-> Some(msg)]

Readers == {"node_status", "plumise://node"}

\* tools/node.ts 119-121, resources/node.ts 32-35: a status request
\* arrives and awaits agentGetStatus
InvokeStatus(r) ==
    /\ statusReq.pc = "idle"
    /\ statusReq' = [pc |-> "query", reader |-> r, report |-> None]
    /\ UNCHANGED <<heartbeat, check, world, tool, node, stopNode>>

\* tools/node.ts 121-142, resources/node.ts 35-65: agentGetStatus
\* resolved; the report is built and returned
StatusOk ==
    /\ statusReq.pc = "query"
    /\ statusReq' = [statusReq EXCEPT
                     !.pc = "done",
                     !.report = Some([isError |-> FALSE,
                                      heartbeat |-> Some(HeartbeatSection)])]
    /\ UNCHANGED <<heartbeat, check, world, tool, node, stopNode>>

\* tools/node.ts 143-149, resources/node.ts 66-93: agentGetStatus
\* rejected.  The tool returns an error text without heartbeat section, the
\* resource a report whose heartbeat section is made up.
StatusFail_marksService(msg) ==
    /\ statusReq.pc = "query"
    /\ statusReq' = [statusReq EXCEPT
                     !.pc = "done",
                     !.report =
                         IF statusReq.reader = "node_status"
                            THEN Some([isError |-> TRUE, heartbeat |-> None])
                            ELSE Some([isError |-> FALSE,
                                       heartbeat |-> Some(FailedSection(msg))])]
    /\ lastError' = Some(msg)
    /\ UNCHANGED <<isRunning, timer, lastHeartbeat, heartbeatCount, runtime,
                   history, intervalMs>>
    /\ UNCHANGED <<check, world, tool, node, stopNode>>

StatusFail(msg) ==
    /\ statusReq.pc = "query"
    /\ statusReq' = [statusReq EXCEPT
                     !.pc = "done",
                     !.report =
                         IF statusReq.reader = "node_status"
                            THEN Some([isError |-> TRUE, heartbeat |-> None])
                            ELSE Some([isError |-> FALSE,
                                       heartbeat |-> Some(FailedSection(msg))])]
    /\ UNCHANGED <<heartbeat, check, world, tool, node, stopNode>>

\* ------------------------------------------- start_node and stop_node
\* tools/node.ts 30-35: start_node is invoked and awaits signMessage
InvokeStartNode ==
    /\ node.pc = "idle"
    /\ node' = [node EXCEPT !.pc = "sign"]
    /\ UNCHANGED <<heartbeat, check, world, tool, statusReq, stopNode>>

\* tools/node.ts 35-41: signMessage resolved; agentRegister is awaited
NodeSigned ==
    /\ node.pc = "sign"
    /\ node' = [node EXCEPT !.pc = "register"]
    /\ UNCHANGED <<heartbeat, check, world, tool, statusReq, stopNode>>

\* tools/node.ts 64-70: the catch block of start_node
NodeCaught ==
    /\ node' = [node EXCEPT
                   !.pc = "done",
                   !.outcome = Some([status |-> "error", isError |-> TRUE,
                                     heartbeatRunning |-> None])]
    /\ UNCHANGED <<heartbeat, check, world, tool, statusReq, stopNode>>

NodeSignFail ==
    /\ node.pc = "sign"
    /\ NodeCaught

NodeRegisterFail ==
    /\ node.pc = "register"
    /\ NodeCaught

\* tools/node.ts 38-44: agentRegister resolved; heartbeat.start() is
\* called and awaited
NodeRegistered ==
    /\ node.pc = "register"
    /\ Start
    /\ node' = [node EXCEPT
                   !.pc = "start",
                   !.called = TRUE,
                   !.awaits = IF AlreadyRunning THEN None ELSE Some(nextAttempt)]
    /\ UNCHANGED <<intervalMs, check, world, tool, statusReq, stopNode>>

\* The start() call start_node awaits: still pending, or rejected
StartPending ==
    /\ node.awaits # None
    /\ \E c \in starts : c.att = node.awaits[1] /\ c.pc \in {"await", "resume"}

StartRejected ==
    /\ node.awaits # None
    /\ \E c \in starts : c.att = node.awaits[1] /\ c.pc = "rejected"

\* tools/node.ts 44-70: the awaited start() has settled; start_node reports
\* "started", or the error start() rejected with
NodeStarted ==
    /\ node.pc = "start"
    /\ ~StartPending
    /\ node' = [node EXCEPT
                   !.pc = "done",
                   !.outcome =
                       IF StartRejected
                          THEN Some([status |-> "error", isError |-> TRUE,
                                     heartbeatRunning |-> None])
                          ELSE Some([status |-> "started", isError |-> FALSE,
                                     heartbeatRunning |-> Some(isRunning)])]
    /\ UNCHANGED <<heartbeat, check, world, tool, statusReq, stopNode>>

\* tools/node.ts 81-101: stop_node calls stop() and reports
StopNode ==
    /\ stopNode = None
    /\ Stop
    /\ stopNode' = Some([status |-> "stopped", isError |-> FALSE,
                         heartbeatRunning |-> isRunning',
                         totalHeartbeats |-> heartbeatCount'])
    /\ UNCHANGED <<intervalMs, check, world, tool, statusReq, node>>

\* The worlds of solve_challenge in a run of the whole server: no
\* challenge; an expired one; one solved at nonce 1; one that exhausts
\* the solver.
ServerInputs ==
    LET o(h, t) == [head |-> [i \in 1..HeadLen |-> h], tail |-> t,
                    late |-> MAX_ITERATIONS]
    IN  {[oracle |-> o(NoZero, AllZero), network |-> None, clock |-> 0],
         [oracle |-> o(NoZero, AllZero),
          network |-> Some(Challenge("c1", 1, MaxClock)), clock |-> MaxClock],
         [oracle |-> [o(NoZero, AllZero) EXCEPT !.head[2] = AllZero],
          network |-> Some(Challenge("c1", 4, 0)), clock |-> MaxClock],
         [oracle |-> o(NoZero, NoZero),
          network |-> Some(Challenge("c1", 1, 0)), clock |-> MaxClock]}

InitServer ==
    /\ Constructed(heartbeatIntervalMs) /\ NoCheck
    /\ \E i \in ServerInputs :
           oracle = i.oracle /\ network = i.network /\ clock = i.clock
    /\ ToolIdle /\ ServerIdle

\* The whole server: the heartbeat loop, started and stopped through
\* start_node and stop_node, with one more request going on beside it:
\* a status request or an invocation of solve_challenge.  The clock stops
\* at MaxTime and at most MaxAttempts attempts are started.
NextServer ==
    \/ now < MaxTime /\ Tick /\ UNCHANGED frame
    \/ \E c \in starts : StartResume(c) /\ UNCHANGED frame
    \/ \E i \in intervals :
           nextAttempt < MaxAttempts /\ TimerFire(i) /\ UNCHANGED frame
    \/ \E a \in attempts : SignOk(a) /\ UNCHANGED frame
    \/ \E a \in attempts, m \in SignErrors : SignFail(a, m) /\ UNCHANGED frame
    \/ \E a \in attempts, ack \in RpcResults : RpcOk(a, ack) /\ UNCHANGED frame
    \/ \E a \in attempts, m \in RpcErrors : RpcFail(a, m) /\ UNCHANGED frame
    \/ InvokeStartNode
    \/ NodeSigned
    \/ NodeSignFail
    \/ NodeRegistered
    \/ NodeRegisterFail
    \/ NodeStarted
    \/ StopNode
    \/ \E r \in Readers : tpc = "idle" /\ InvokeStatus(r)
    \/ StatusOk
    \/ \E m \in RpcErrors : StatusFail(m)
    \/ statusReq.pc = "idle" /\ InvokeSolveChallenge
    \/ FetchOk
    \/ FetchFail
    \/ SolveStep
    \/ SolutionSigned
    \/ SignRejected
    \/ \E result \in SolutionResults : SubmitOk(result)
    \/ SubmitFail

SpecServer == InitServer /\ [][NextServer]_vars

\* ------------------------------------------------ the steps, by their kind
StartStep == startCalls' # startCalls
StopStep == stopCalls' # stopCalls
ArmStep == nextTimer' # nextTimer
FireStep == firings' # firings
SuccessStep == succeeded' # succeeded
FailureStep == failed' # failed
\* the attempt a call of sendHeartbeat() puts in flight
Fresh == [id |-> nextAttempt, pc |-> "sign", ts |-> now]

\* ------------------------------------------------------------------ C1
\* C1: once stop() has returned and no later start() has been called, no
\* interval fires, whatever start() and stop() calls came before and
\* however they interleaved with the first awaited attempt.
C1_NoFiringAfterStop == [][stopped => ~FireStep]_vars

\* ------------------------------------------------------------------ C2
\* C2: a start() call that finds isRunning = TRUE changes no field, starts
\* no attempt and arms no interval; so does a start() call that directly
\* follows another start() call; a start() call that finds isRunning =
\* FALSE starts exactly one attempt.
C2_StartIdempotent ==
    [][StartStep =>
        /\ (isRunning \/ lastOp = "start") =>
               UNCHANGED <<fields, runtime, nextAttempt, nextTimer>>
        /\ ~isRunning =>
               /\ nextAttempt' = nextAttempt + 1
               /\ attempts' = attempts \cup {Fresh}
               /\ isRunning']_vars

\* Two start() calls in succession on a new service: one attempt in flight.
C2_Witness ==
    /\ lastOp = "start"
    /\ startCalls = 2
    /\ stopCalls = 0
    /\ now = 0
    /\ nextAttempt = 1
    /\ attempts = {[id |-> 0, pc |-> "sign", ts |-> 0]}

\* ------------------------------------------------------------------ C3
\* C3: a failed attempt leaves isRunning, the timer field and the live
\* intervals as they were and calls no stop(); while no stop() was ever
\* called, a started service has isRunning = TRUE and, once start() has
\* returned, its interval armed; and a firing that finds lastError set
\* still starts a new attempt.
C3_FailuresKeepLoop ==
    [][/\ FailureStep => UNCHANGED <<isRunning, timer, intervals, stopCalls>>
       /\ (stopCalls' = 0 /\ startCalls' > 0) => isRunning'
       /\ (stopCalls' = 0 /\ nextTimer' > 0) =>
              /\ timer' # None
              /\ \E i \in intervals' : i.id = timer'[1]
       /\ (FireStep /\ lastError # None) =>
              /\ nextAttempt' = nextAttempt + 1
              /\ Fresh \in attempts']_vars

\* Two failed attempts and no success, no stop(), and the interval has just
\* fired again.
C3_Witness ==
    /\ stopCalls = 0
    /\ failed >= 2
    /\ succeeded = 0
    /\ lastError # None
    /\ lastOp = "fired"
    /\ isRunning

\* ------------------------------------------------------------------ C4
\* C4: the completion of a successful attempt sets lastHeartbeat to the
\* current time, adds exactly 1 to heartbeatCount, sets lastError to null
\* and leaves isRunning, the timer field and the live intervals unchanged.
C4_SuccessEffect ==
    [][SuccessStep =>
        /\ lastHeartbeat' = Some(now)
        /\ heartbeatCount' = heartbeatCount + 1
        /\ lastError' = None
        /\ UNCHANGED <<isRunning, timer, intervals>>]_vars

\* A success that came after a failure of the same run of the loop.
C4_Witness ==
    /\ lastOp = "succeeded"
    /\ startCalls = 1
    /\ failed >= 1
    /\ heartbeatCount >= 1
    /\ lastError = None
    /\ lastHeartbeat = Some(now)

\* ------------------------------------------------------------------ C5
\* C5: the completion of a failed attempt, whichever step failed, sets
\* lastError to a non-null message, leaves heartbeatCount and lastHeartbeat
\* unchanged, and lets no exception out: none escapes the callback and the
\* start() awaiting the attempt is not rejected.
C5_FailureEffect ==
    [][FailureStep =>
        /\ lastError' # None
        /\ UNCHANGED <<heartbeatCount, lastHeartbeat>>
        /\ escaped' = 0
        /\ \A c \in starts' : c.pc # "rejected"]_vars

\* A failure after a success: the counter and the date stay.
C5_Witness ==
    /\ lastOp = "failed"
    /\ heartbeatCount >= 1
    /\ lastHeartbeat # None
    /\ lastError # None

\* ------------------------------------------------------------------ C6
\* C6: no step ever lowers heartbeatCount, a start() or stop() call leaves
\* it (and lastHeartbeat) unchanged, and a start() call made after a stop()
\* starts a fresh attempt at once.
C6_CountSurvivesRestart ==
    [][/\ heartbeatCount' >= heartbeatCount
       /\ (StartStep \/ StopStep) => UNCHANGED <<heartbeatCount, lastHeartbeat>>
       /\ (StartStep /\ stopped) =>
              /\ Fresh \in attempts'
              /\ Fresh \notin attempts
              /\ \E c \in starts' : c.att = Fresh.id /\ c.pc = "await"]_vars

\* start(), stop(), start() with a success on each side of the restart, no
\* interval involved: the counter went on from 1 to 2.
C6_Witness ==
    /\ stopCalls >= 1
    /\ startCalls = 2
    /\ firings = 0
    /\ nextAttempt = 2
    /\ heartbeatCount = 2
    /\ lastOp = "succeeded"

\* ------------------------------------------------------------------ C7
\* C7: a start() call on a stopped service sets isRunning and clears
\* lastError, puts exactly one attempt in flight and arms nothing; start()
\* arms its interval only once that attempt is no longer in flight, and
\* only a start() does; an interval fires no sooner than intervalMs after
\* it was armed, hence after the immediate attempt completed.
C7_StartOrder ==
    [][/\ (StartStep /\ ~isRunning) =>
              /\ isRunning' /\ lastError' = None
              /\ attempts' = attempts \cup {Fresh}
              /\ Fresh \notin attempts
              /\ UNCHANGED <<timer, intervals, nextTimer>>
       /\ ArmStep =>
              \E c \in starts :
                  /\ starts' = starts \ {c}
                  /\ c.att < nextAttempt
                  /\ \A a \in attempts : a.id # c.att
                  /\ \E i \in intervals' \ intervals :
                         /\ i.armedAt = now
                         /\ timer' = Some(i.id)
       /\ (intervals' # intervals /\ ~ArmStep /\ ~StopStep) => FireStep
       /\ FireStep =>
              \E i \in intervals \ intervals' :
                  now >= i.armedAt + intervalMs]_vars

\* One start(), whose interval has fired.
C7_Witness ==
    /\ startCalls = 1
    /\ stopCalls = 0
    /\ lastOp = "fired"
    /\ firings >= 1
    /\ nextAttempt >= 2

\* ------------------------------------------------------------------ C8
\* C8: a stop() call ends with isRunning = FALSE and the timer field null,
\* leaves heartbeatCount, lastHeartbeat and lastError unchanged, and
\* changes nothing at all when it finds isRunning = FALSE and the timer
\* field null, as a second stop() in a row or a stop() on a new service
\* does.
C8_StopIdempotent ==
    [][StopStep =>
        /\ ~isRunning'
        /\ timer' = None
        /\ \A i \in intervals' : timer = None \/ i.id # timer[1]
        /\ UNCHANGED <<heartbeatCount, lastHeartbeat, lastError>>
        /\ (lastOp = "stop" \/ startCalls = 0 \/ (~isRunning /\ timer = None)) =>
               UNCHANGED <<fields, runtime>>]_vars

\* A second stop() in a row on a service whose interval had been armed.
C8_Witness ==
    /\ lastOp = "stop"
    /\ stopCalls = 2
    /\ nextTimer >= 1
    /\ heartbeatCount >= 1
    /\ ~isRunning
    /\ timer = None

\* ------------------------------------------------------------------ C9
\* C9: stop() leaves the attempts in flight as they are, and an attempt
\* that completes while isRunning = FALSE is applied like any other (a
\* success adds 1 to heartbeatCount and sets lastHeartbeat, a failure sets
\* lastError).
C9_StopKeepsInFlight ==
    [][/\ StopStep => UNCHANGED <<attempts, starts>>
       /\ (SuccessStep /\ ~isRunning) =>
              /\ heartbeatCount' = heartbeatCount + 1
              /\ lastHeartbeat' = Some(now)
       /\ (FailureStep /\ ~isRunning) => lastError' # None]_vars

\* stop() has returned, no start() came after, no interval ever fired, and
\* the attempt start() had begun completes now and is counted.
C9_Witness ==
    /\ stopped
    /\ ~isRunning
    /\ firings = 0
    /\ startCalls = 1
    /\ lastOp = "succeeded"
    /\ heartbeatCount = 1
    /\ lastHeartbeat = Some(now)

\* ------------------------------------------------------------------ C10
\* C10: a firing starts a new attempt whatever is in flight: the attempts
\* in flight stay and one is added.
C10_NoInFlightGuard ==
    [][FireStep => (Fresh \notin attempts /\ attempts' = attempts \cup {Fresh})]_vars

\* One start(), so one interval: two of its attempts were in flight
\* together and the later one completed first.
C10_Witness ==
    /\ startCalls = 1
    /\ stopCalls = 0
    /\ lastDone # None
    /\ \E a \in attempts : a.id >= 1 /\ a.id < lastDone[1]

\* ------------------------------------------------------------------ C11
\* C11 (as stated): when an attempt succeeds after a later-started one
\* has succeeded, and it started before the date the later one wrote, the
\* date it writes to lastHeartbeat is older than the one in place. (No
\* attempt has failed, so the attempt that completed last is the one that
\* wrote lastHeartbeat.)
C11_EarlierAttemptWritesOlderDate ==
    [][(/\ SuccessStep
        /\ failed = 0
        /\ lastDone # None /\ lastHeartbeat # None
        /\ lastDone'[1] < lastDone[1]
        /\ \E a \in attempts : a.id = lastDone'[1] /\ a.ts < lastHeartbeat[1])
       => lastHeartbeat'[1] < lastHeartbeat[1]]_vars

\* C11 (amended): a successful attempt writes the time of its completion,
\* not the time it started, so lastHeartbeat never decreases, also when an
\* earlier-started attempt completes after a later-started one.
C11_DateNeverDecreases ==
    [][/\ (lastHeartbeat # None) =>
              (lastHeartbeat' # None /\ lastHeartbeat'[1] >= lastHeartbeat[1])
       /\ SuccessStep => lastHeartbeat' = Some(now')]_vars

\* The attempt that just succeeded started earlier than another attempt
\* that had already succeeded (every completed attempt succeeded).
C11_Witness ==
    /\ lastOp = "succeeded"
    /\ failed = 0
    /\ heartbeatCount >= 2
    /\ lastDone # None
    /\ \E k \in (lastDone[1] + 1)..(nextAttempt - 1) :
           \A a \in attempts : a.id # k
    /\ lastHeartbeat = Some(now)

\* ------------------------------------------------------------------ C12
\* The timing scenario, in units of 10 ms: interval 1000 ms, a gateway that
\* always succeeds 10 ms after the attempt started, observed at 3050 ms.
Scenario == [intervalMs |-> 100, latency |-> 1, until |-> 305]

\* What is due at the current time: a signature (the signer answers at
\* once), a gateway answer, a start() to continue, an interval to fire.
ScenarioDue ==
    \/ \E a \in attempts : a.pc = "sign"
    \/ \E a \in attempts : a.pc = "rpc" /\ now >= a.ts + Scenario.latency
    \/ \E c \in starts : c.pc = "resume"
    \/ \E i \in intervals : now >= i.nextFire

\* One start() at time 0; everything happens when it is due, and the clock
\* moves only when nothing is due.
ScenarioNext ==
    \/ startCalls = 0 /\ now = 0 /\ Start /\ UNCHANGED frame
    \/ \E a \in attempts : SignOk(a) /\ UNCHANGED frame
    \/ \E a \in attempts :
           /\ now = a.ts + Scenario.latency
           /\ RpcOk(a, TRUE) /\ UNCHANGED frame
    \/ \E c \in starts : StartResume(c) /\ UNCHANGED frame
    \/ \E i \in intervals : now = i.nextFire /\ TimerFire(i) /\ UNCHANGED frame
    \/ /\ startCalls = 1 /\ ~ScenarioDue /\ now < Scenario.until
       /\ Tick /\ UNCHANGED frame

InitScenario == Constructed(Scenario.intervalMs) /\ NoCheck /\ NoTool

SpecScenario == InitScenario /\ [][ScenarioNext]_vars

\* C12: in the scenario, at 3050 ms heartbeatCount is 4 (the immediate
\* attempt and 3 firings of the interval) and lastError is null.
C12_ScenarioCount ==
    now = Scenario.until =>
        /\ heartbeatCount = 4
        /\ lastError = None
        /\ firings = 3
        /\ attempts = {}

\* The scenario's end: the interval fired at 1010, 2010 and 3010 ms.
C12_Witness ==
    /\ now = Scenario.until
    /\ startCalls = 1
    /\ heartbeatCount = 4
    /\ firings = 3
    /\ lastHeartbeat = Some(Scenario.until - 3)

\* ------------------------------------------------------------------ C13
\* The intervals a HeartbeatService can be constructed with: loadConfig
\* parses PLUMISE_HEARTBEAT_INTERVAL_MS with parseInt and validates nothing,
\* and the constructor stores what it is given.
IntervalArgs == (0 - 1)..heartbeatIntervalMs

InitAnyInterval ==
    (\E ms \in IntervalArgs : Constructed(ms)) /\ NoCheck /\ NoTool

SpecAnyInterval == InitAnyInterval /\ [][Next]_vars

\* C13: no HeartbeatService with intervalMs <= 0 arms a timer (none is
\* even constructed): a live interval belongs to a service whose
\* intervalMs is positive.
C13_NoTimerWithBadInterval == intervals # {} => intervalMs > 0

\* ------------------------------------------------------------------ C18
\* The hex digits of a hash string, and the number of leading zero bits of
\* the bit string they spell, most significant bit first.
DigitsOf(hash) == IF StartsWith0x(hash) THEN SubSeq(hash, 3, Len(hash)) ELSE hash

ZeroBitsOfDigit(c) ==
    LET v == ParseHexDigit(c)
    IN  IF v >= 8 THEN 0 ELSE IF v >= 4 THEN 1 ELSE IF v >= 2 THEN 2
        ELSE IF v >= 1 THEN 3 ELSE 4

RECURSIVE LeadingZeroBits(_)
LeadingZeroBits(hex) ==
    IF hex = <<>> THEN 0
    ELSE IF hex[1] = "0" THEN 4 + LeadingZeroBits(Tail(hex))
    ELSE ZeroBitsOfDigit(hex[1])

\* C18: for a hash with or without the 0x prefix and a difficulty d with
\* 0 <= d <= 4 * (number of hex digits), the check accepts exactly when
\* the hash has at least d leading zero bits.
C18_CheckIsLeadingZeroBits ==
    (chkVerdict # None /\ chkBits <= 4 * Len(DigitsOf(chkHash[1]))) =>
        (chkVerdict[1] <=> LeadingZeroBits(DigitsOf(chkHash[1])) >= chkBits)

\* The check accepted a hash without prefix at a difficulty that is not a
\* multiple of 4: one zero digit, then a digit whose top bits are zero.
C18_Witness ==
    /\ chkVerdict = Some(TRUE)
    /\ chkBits = 6
    /\ ~StartsWith0x(chkHash[1])
    /\ chkHash[1][1] = "0" /\ chkHash[1][2] = "2"

\* ------------------------------------------------------------------ C19
\* C19: for a difficulty greater than 4 * (number of hex digits of the
\* hash) the check rejects, whatever the hash.
C19_TooDifficultRejected ==
    (chkVerdict # None /\ chkBits > 4 * Len(DigitsOf(chkHash[1]))) =>
        chkVerdict = Some(FALSE)

\* ------------------------------------------------------------------ C14
\* The solver has been entered and has returned.
SolverReturned == solverCalls = 1 /\ tpc # "solve"

\* C14: solveChallenge(data, 0) returns "00000000", and it has computed
\* exactly one hash, that of data + "00000000", when it returns.
C14_ZeroDifficulty ==
    (SolverReturned /\ challenge[1].difficulty = 0) =>
        /\ solution = Some(<<"0", "0", "0", "0", "0", "0", "0", "0">>)
        /\ evals = 1
        /\ hashed = solution

\* The solver returned at difficulty 0 although the hash of nonce 0 has no
\* zero bit in front.
C14_Witness ==
    /\ tpc = "sign"
    /\ challenge[1].difficulty = 0
    /\ Keccak256(0) = Prefixed(NoZero)
    /\ nonce = 0

\* ------------------------------------------------------------------ C15
\* Every nonce has the digest of one of these nonces that is not above it:
\* a nonce below HeadLen is one of them, oracle.late is one, and every
\* other nonce has the digest of nonce HeadLen.  So a set of nonces that
\* is closed downwards fails the check when its members among these do.
Probes == (0..HeadLen) \cup {oracle.late}

\* C15: the solver hashes the nonces 0, 1, 2, ... in this order, one hash
\* each, and the nonce it returns is the lowest candidate whose hash
\* passes the check: it passes and every nonce below it fails.  The
\* result is therefore the one value the arguments determine.
C15_LowestNonce ==
    /\ (tpc = "solve" /\ nonce > 0) =>
           (evals = nonce /\ hashed = Some(Hex8(nonce - 1)))
    /\ tpc = "sign" =>
           /\ solution = Some(Hex8(nonce))
           /\ nonce \in 0..(MAX_ITERATIONS - 1)
           /\ evals = nonce + 1
           /\ HasLeadingZeroBits(Keccak256(nonce), challenge[1].difficulty)
           /\ \A m \in Probes :
                  m < nonce =>
                      ~HasLeadingZeroBits(Keccak256(m), challenge[1].difficulty)

\* Nonce 1 was returned: nonce 0 fails, and nonce 2 would pass as well.
C15_Witness ==
    /\ tpc = "sign"
    /\ nonce = 1
    /\ HasLeadingZeroBits(Keccak256(2), challenge[1].difficulty)
    /\ ~HasLeadingZeroBits(Keccak256(0), challenge[1].difficulty)

\* ------------------------------------------------------------------ C16
\* C16: the solver computes at most 1,000,000 hashes; when it has
\* returned, its result is null exactly when no nonce in 0..999,999 passes
\* the check (then it computed all 1,000,000 hashes), and a nonce it
\* returns passes the check.
C16_BoundedAndExact ==
    /\ evals <= MAX_ITERATIONS
    /\ SolverReturned =>
           IF solution = None
              THEN /\ evals = MAX_ITERATIONS
                   /\ outcome = Some("failed")
                   /\ \A n \in Probes :
                          n < MAX_ITERATIONS =>
                              ~HasLeadingZeroBits(Keccak256(n),
                                                  challenge[1].difficulty)
              ELSE /\ nonce < MAX_ITERATIONS
                   /\ solution = Some(Hex8(nonce))
                   /\ HasLeadingZeroBits(Keccak256(nonce),
                                         challenge[1].difficulty)

\* The solver used up all its candidates and returned null.
C16_Witness ==
    /\ outcome = Some("failed")
    /\ solution = None
    /\ evals = MAX_ITERATIONS

\* ------------------------------------------------------------------ C17
\* The number a string of lower-case hex digits spells
RECURSIVE HexValue(_)
HexValue(str) ==
    IF str = <<>> THEN 0
    ELSE 16 * HexValue(SubSeq(str, 1, Len(str) - 1))
         + ParseHexDigit(str[Len(str)])

\* C17: a result of the solver that is not null has exactly 8 characters,
\* each a lower-case hex digit; it spells the returned nonce, padded with
\* zeros on the left; and it is the suffix of the last input hashed.
C17_EightHexDigits ==
    solution # None =>
        /\ Len(solution[1]) = 8
        /\ \A i \in 1..8 : \E k \in 1..16 : solution[1][i] = HexDigits[k]
        /\ HexValue(solution[1]) = nonce
        /\ hashed = solution

\* The last candidate, 999,999, was returned: "000f423f".
C17_Witness ==
    /\ solution = Some(<<"0", "0", "0", "f", "4", "2", "3", "f">>)
    /\ nonce = MAX_ITERATIONS - 1
    /\ tpc = "sign"

C21_SubmitOnlyWithNonce ==
    /\ (signCalls > 0 \/ submitCalls > 0) =>
           /\ challenge # None /\ challenge[1].id # ""
           /\ ~(challenge[1].expiresAt > 0 /\ clock >= challenge[1].expiresAt)
           /\ solution # None
    /\ (tpc = "done" /\ (network = None \/ network[1].id = "")) =>
           /\ \/ outcome = Some("no challenge") /\ ~isError
              \/ outcome = Some("error") /\ isError
           /\ solverCalls = 0 /\ signCalls = 0 /\ submitCalls = 0
    /\ (SolverReturned /\ solution = None) =>
           /\ outcome = Some("failed") /\ ~isError
           /\ signCalls = 0 /\ submitCalls = 0
    /\ outcome \in {Some("no challenge"), Some("failed")} =>
           ~isError /\ submitCalls = 0

\* A challenge without id was fetched and reported as no challenge.
C21_Witness ==
    /\ outcome = Some("no challenge")
    /\ network # None
    /\ challenge = network
    /\ submitCalls = 0

\* ------------------------------------------------------------------ C22
\* C22: the one message signed is "solution:" + address + ":" + the id of
\* the fetched challenge + ":" + the returned nonce; the one submit call
\* carries the address, that id, that nonce and the signature of that
\* message; once the network has answered, the status is "accepted"
\* exactly when its result has accepted = true and "rejected" otherwise,
\* and reward and message are those of the result.
C22_SignedAndSubmitted ==
    /\ signCalls <= 1 /\ submitCalls <= 1
    /\ solution # None =>
           /\ signCalls = 1
           /\ signedMsg = Some(<<"solution", ":", Address, ":",
                                 network[1].id, ":">> \o Hex8(nonce))
    /\ tpc = "submit" => submitCalls = 1
    /\ submitCalls = 1 =>
           /\ signature = Some(SignatureOf(signedMsg[1]))
           /\ submitted = Some(<<Address, network[1].id, Hex8(nonce),
                                 signature[1]>>)
    /\ netResult # None =>
           /\ submitCalls = 1
           /\ ~isError
           /\ outcome = Some("accepted") <=> netResult[1].accepted
           /\ outcome = Some("rejected") <=> ~netResult[1].accepted
           /\ reported = Some([reward |-> netResult[1].reward,
                               message |-> netResult[1].message])

\* The network refused the solution with a reward and a message of its
\* own; the tool reported them under "rejected".
C22_Witness ==
    /\ outcome = Some("rejected")
    /\ netResult = Some([accepted |-> FALSE, reward |-> "5", message |-> "late"])
    /\ nonce = 1

\* ------------------------------------------------------------------ C29
\* C29: a submit call carries the id of the challenge on the network and
\* a nonce whose hash, for that challenge's data, passes the check at that
\* challenge's difficulty.
C29_SubmittedNoncePasses ==
    submitted # None =>
        /\ submitted[1][2] = network[1].id
        /\ challenge = network
        /\ HasLeadingZeroBits(Keccak256(HexValue(submitted[1][3])),
                              network[1].difficulty)

\* The nonce 2 was submitted at a difficulty that nonce 0 and 1 fail.
C29_Witness ==
    /\ submitted # None
    /\ submitted[1][3] = Hex8(2)
    /\ network[1].difficulty = 4 * HashLen
    /\ tpc = "submit"

\* ------------------------------------------------------------------ C24
\* C24: in every step the number of attempts started grows by one if the
\* step is a start() that finds the service stopped, by one if it is a
\* firing of an interval, and not at all otherwise; the completion of an
\* attempt, failed or not, starts none.  So the attempts started are the
\* effective start() calls plus the firings.
C24_NoExtraAttempt ==
    [][nextAttempt' = nextAttempt
                      + (IF StartStep /\ ~isRunning THEN 1 ELSE 0)
                      + (firings' - firings)]_vars

\* An attempt has just failed, after a firing, and the attempts started
\* are the one of start() and one per firing.
C24_Witness ==
    /\ lastOp = "failed"
    /\ failed >= 1
    /\ firings >= 1
    /\ startCalls = 1
    /\ nextAttempt = firings + 1

\* ------------------------------------------------------------------ C27
\* C27: at most one interval is live, a live interval is the one the
\* timer field holds, and a live interval implies isRunning.
C27_OneLiveTimer ==
    /\ Cardinality(intervals) <= 1
    /\ \A i \in intervals : timer = Some(i.id)
    /\ intervals # {} => isRunning

\* ------------------------------------------------------------------ C28
\* C28: heartbeatCount is the number of attempts that have completed
\* successfully since construction, and lastHeartbeat is set exactly when
\* that number is positive.
C28_CountIsSuccesses ==
    /\ heartbeatCount = succeeded
    /\ lastHeartbeat # None <=> heartbeatCount > 0

\* Two attempts overlapped and both succeeded, the one started first
\* completing last.
C28_Witness ==
    /\ heartbeatCount = 2
    /\ lastOp = "succeeded"
    /\ lastDone = Some(0)
    /\ nextAttempt = 2
    /\ attempts = {}

\* ------------------------------------------------------------------ C30
\* C30: lastError becomes null in a start() that finds the service
\* stopped and in a successful completion, becomes non-null in a failed
\* completion, and is left alone by every other step.  So it reflects
\* the latest of these events, completions counted in the order they
\* happen.
C30_LastErrorFollowsEvents ==
    [][/\ (StartStep /\ ~isRunning) => lastError' = None
       /\ SuccessStep => lastError' = None
       /\ FailureStep => lastError' # None
       /\ ~((StartStep /\ ~isRunning) \/ SuccessStep \/ FailureStep) =>
              lastError' = lastError]_vars

\* The attempt started last succeeded, the one started before it then
\* failed: lastError is set.
C30_Witness ==
    /\ lastError # None
    /\ lastOp = "failed"
    /\ lastDone = Some(0)
    /\ nextAttempt = 2
    /\ attempts = {}
    /\ succeeded = 1 /\ failed = 1

\* ------------------------------------------------------------------ C23
\* The outcomes of solve_challenge
SolveOutcomes ==
    {"accepted", "rejected", "expired", "no challenge", "failed", "error"}

\* C23: each of start_node, stop_node and solve_challenge has an outcome
\* exactly when it has ended, and the outcome, once returned, stays.
\* That of solve_challenge is one of accepted, rejected, expired, no
\* challenge, failed and error, with isError for error alone; that of
\* start_node is "started" once start() has been called, whether or not
\* the attempt inside start() failed, and an error only when the signing
\* or the registration failed; that of stop_node is "stopped".
C23_OneStructuredOutcome ==
    [][/\ (tpc' = "done") <=> (outcome' # None)
       /\ outcome' # None =>
              /\ outcome'[1] \in SolveOutcomes
              /\ isError' <=> (outcome'[1] = "error")
       /\ outcome # None => outcome' = outcome /\ isError' = isError
       /\ (node'.pc = "done") <=> (node'.outcome # None)
       /\ node'.outcome # None =>
              /\ node'.outcome[1].status \in {"started", "error"}
              /\ node'.outcome[1].isError <=> (node'.outcome[1].status = "error")
              /\ node'.called <=> (node'.outcome[1].status = "started")
       /\ node.outcome # None => node' = node
       /\ stopNode' # None =>
              stopNode'[1].status = "stopped" /\ ~stopNode'[1].isError
       /\ stopNode # None => stopNode' = stopNode]_vars

\* start_node reported "started" although the attempt inside start()
\* failed.
C23_Witness ==
    /\ node.pc = "done"
    /\ node.outcome[1].status = "started"
    /\ failed = 1
    /\ nextAttempt = 1
    /\ lastError # None

\* ------------------------------------------------------------------ C25
\* The four fields of the HeartbeatState
HeartbeatState == <<isRunning, lastHeartbeat, heartbeatCount, lastError>>

\* C25: a step that changes isRunning, lastHeartbeat, heartbeatCount or
\* lastError is a call of start(), a call of stop() or the completion of
\* an attempt; a step of a status request (tool or resource) or of
\* solve_challenge changes none of them.
C25_OnlyTheLoopWrites ==
    [][/\ HeartbeatState' # HeartbeatState =>
              (StartStep \/ StopStep \/ SuccessStep \/ FailureStep)
       /\ (statusReq' # statusReq \/ tool' # tool) =>
              HeartbeatState' = HeartbeatState]_vars

\* solve_challenge ran to "accepted" beside a running service that has
\* one heartbeat behind it and an error from a later attempt.
C25_Witness ==
    /\ outcome = Some("accepted")
    /\ isRunning
    /\ heartbeatCount = 1
    /\ lastError # None

\* ------------------------------------------------------------------ C26
\* C26: a report with a heartbeat section, when it is built, shows in
\* that section the state of the service at that moment.
C26_ReportShowsState ==
    [][(/\ statusReq.report = None
        /\ statusReq'.report # None
        /\ statusReq'.report[1].heartbeat # None)
       => statusReq'.report[1].heartbeat[1] = HeartbeatSection]_vars
====
